---- MODULE Spec2Model ----
(***************************************************************************)
(* Model of examples/density_pericenter_fit_utils.py: the power-law model, *)
(* the box prior, the two Gaussian likelihoods, the two posteriors, the    *)
(* point-estimate fits and the ensemble MCMC driver.                       *)
(*                                                                         *)
(* Numbers.  Reals are modelled exactly on a sub-lattice of the rationals: *)
(*   - a rational is a pair <<n, d>> with d > 0 in lowest terms;           *)
(*   - a log10-domain value that is not an integer (the data y) is a       *)
(*     record [k, e] standing for log10(k) + e, so 10**y = k * 10^e;       *)
(*   - x, q and m are integers, so 10**model is an exact power of ten.     *)
(* A log-likelihood -0.5 * np.sum(ll) is kept as the formal sum of its     *)
(* summands, each chi + ln(2 pi s2) with chi and s2 rational.              *)
(***************************************************************************)
EXTENDS Integers, Sequences, FiniteSets, TLC

VARIABLES
    \* -- calls of the pure functions
    theta,      \* <<q, m>> handed to the pure functions
    x,          \* sequence of integers: the abscissae (log10 r_p)
    y,          \* sequence of log-values [k, e]: the data (log10 rho)
    xerr,       \* sequence of rationals
    yerr,       \* sequence of rationals
    fn,         \* name of the last function called ("none" before any call)
    ret,        \* what that call returned
    llEvals,    \* likelihood evaluations performed by that call
    prevRet,    \* likelihood of the data before the residual flip, if ret is
                \* the likelihood of flipped data
    flipped,    \* index of the point whose residual was negated (0: none)
    \* -- one call of run_mcmc / run_mcmc_sim
    mFn,        \* which of the two is running
    pc,         \* where the call stands
    pool,       \* the multiprocessing pool: "none", "open" or "closed"
    samplerPool,\* the pool the sampler maps over: "unset", "none" or "pool"
    iteration,  \* sampler.iteration: steps stored in the chain
    evalsCaller,\* log-posterior evaluations made in the calling process
    evalsPool,  \* log-posterior evaluations made in pool workers
    keptSteps,  \* chain steps get_chain kept
    samples,    \* rows of the returned flat sample array (-1: none yet)
    poolAtRead, \* state of the pool when get_chain ran
    \* -- calls of run_best_fit, run_best_fit_for_sim, ..._with_mcmc
    r_p,        \* sequence of positive integers: the pericenters
    rho,        \* sequence of positive integers: the densities
    rng,        \* state of numpy's global random generator
    fitFn,      \* name of the last fit function called ("none" before)
    soln,       \* soln.x of that call, <<q, m>>
    pos,        \* the initial ensemble of that call (<<>> when it has none)
    entry,      \* generator state in which that call was entered
    repeated,   \* "no", or whether that call, made right after a call of the
                \* same function, was entered in the "same" or an "other"
                \* generator state than that earlier call
    memo        \* soln.x of the two objectives on the arrays r_p, rho, which
                \* no action changes: minimize is run once for them

pureVars == <<theta, x, y, xerr, yerr, fn, ret, llEvals, prevRet, flipped>>
mcmcVars == <<mFn, pc, pool, samplerPool, iteration, evalsCaller, evalsPool,
              keptSteps, samples, poolAtRead>>
fitVars == <<r_p, rho, rng, fitFn, soln, pos, entry, repeated, memo>>
nonPure == <<mcmcVars, fitVars>>
vars == <<pureVars, mcmcVars, fitVars>>

-----------------------------------------------------------------------------
(* Bounds of the model *)

MaxPts == 2

-----------------------------------------------------------------------------
(* Exact rational arithmetic *)

Abs(a) == IF a < 0 THEN -a ELSE a

RECURSIVE GCD(_, _)
GCD(a, b) == IF b = 0 THEN a ELSE GCD(b, a % b)

Rat(n, d) ==
    LET g == GCD(Abs(n), Abs(d))
        s == IF d < 0 THEN -1 ELSE 1
    IN  <<(s * n) \div g, (s * d) \div g>>

RInt(n) == <<n, 1>>
RZero == <<0, 1>>
ROne == <<1, 1>>

RAdd(a, b) ==
    LET g == GCD(a[2], b[2])
    IN  Rat(a[1] * (b[2] \div g) + b[1] * (a[2] \div g), (a[2] \div g) * b[2])

RNeg(a) == <<-a[1], a[2]>>
RSub(a, b) == RAdd(a, RNeg(b))

\* cross-cancelling product, so that intermediate values stay small
RMul(a, b) ==
    LET g1 == GCD(Abs(a[1]), b[2])
        g2 == GCD(Abs(b[1]), a[2])
    IN  IF a[1] = 0 \/ b[1] = 0 THEN RZero
        ELSE <<(a[1] \div g1) * (b[1] \div g2), (a[2] \div g2) * (b[2] \div g1)>>

RInv(a) == IF a[1] < 0 THEN <<-a[2], -a[1]>> ELSE <<a[2], a[1]>>
RDiv(a, b) == RMul(a, RInv(b))
RSq(a) == RMul(a, a)
RLess(a, b) == a[1] * b[2] < b[1] * a[2]

RECURSIVE Pow10Nat(_)
Pow10Nat(n) == IF n = 0 THEN 1 ELSE 10 * Pow10Nat(n - 1)

\* 10**e for an integer e
Pow10Int(e) == IF e >= 0 THEN <<Pow10Nat(e), 1>> ELSE <<1, Pow10Nat(-e)>>

\* 10**v for a log-value v = log10(k) + e
Pow10(v) == RMul(RInt(v.k), Pow10Int(v.e))

RECURSIVE Log10Nat(_)
Log10Nat(n) == IF n < 10 THEN 0 ELSE 1 + Log10Nat(n \div 10)


\* np.log10 of a positive rational n/d whose denominator is a power of ten
Log10(r) == [k |-> r[1], e |-> -Log10Nat(r[2])]

-----------------------------------------------------------------------------
(* Floating-point results of the log-probability functions *)

\* One summand of np.sum(ll):  chi + nlog * ln(2 pi s2)
Term(chi, nlog, s2) == [chi |-> chi, nlog |-> nlog, s2 |-> s2]

\* A finite value -0.5 * np.sum(ll), kept as the formal sum of its summands in
\* array order (equal summands give equal sums)
Finite(terms) == [kind |-> "finite", terms |-> terms]
Zero == Finite(<<>>)                    \* 0.0
NegInf == [kind |-> "-inf"]             \* -np.inf
NonFinite == [kind |-> "nonfinite"]     \* inf or nan from a division by zero

isfinite(v) == v.kind = "finite"

\* lp + ll in IEEE arithmetic, lp being 0.0 or -inf
FAdd(lp, ll) ==
    IF isfinite(lp) /\ isfinite(ll) THEN Finite(lp.terms \o ll.terms)
    ELSE IF isfinite(lp) THEN ll
    ELSE IF isfinite(ll) THEN lp
    ELSE NonFinite                      \* -inf + nan, -inf + inf

-----------------------------------------------------------------------------
(* The pure functions *)

PriorLo == -2
PriorHi == 2

\* slip: intercept and slope exchanged
log_model_swapped(xx, q, m) == m + q * xx

log_model(xx, q, m) == q + m * xx

\* slip: closed instead of open interval
log_prior_closed(th) ==
    IF PriorLo <= th[1] /\ th[1] <= PriorHi /\ PriorLo <= th[2] /\ th[2] <= PriorHi
    THEN [kind |-> "finite", terms |-> <<>>] ELSE [kind |-> "-inf"]

log_prior(th) ==
    LET q == th[1]
        m == th[2]
    IN  IF PriorLo < q /\ q < PriorHi /\ PriorLo < m /\ m < PriorHi
        THEN Zero ELSE NegInf

\* sigma2 of log_likelihood at point i
Sigma2(th, xs, xe, ye, i) ==
    LET model == log_model(xs[i], th[1], th[2])
    IN  RAdd(RSq(ye[i]),
             RMul(RSq(RMul(RInt(th[2]), Pow10Int(model))),
                  RSq(RDiv(xe[i], Pow10Int(xs[i])))))

\* slip: the residual is not squared
SqResidual_unsquared(th, xs, ys, i) ==
    RSub(Pow10(ys[i]), Pow10Int(log_model(xs[i], th[1], th[2])))

\* (10**y - 10**model) ** 2 at point i
SqResidual(th, xs, ys, i) ==
    RSq(RSub(Pow10(ys[i]), Pow10Int(log_model(xs[i], th[1], th[2]))))

\* np.sum(ll) over the points 1..i of log_likelihood
RECURSIVE SumLL(_, _, _, _, _, _)
SumLL(th, xs, ys, xe, ye, i) ==
    IF i = 0 THEN Finite(<<>>)
    ELSE LET rest == SumLL(th, xs, ys, xe, ye, i - 1)
             s2 == Sigma2(th, xs, xe, ye, i)
         IN  IF ~isfinite(rest) \/ s2 = RZero THEN NonFinite
             ELSE Finite(Append(rest.terms,
                                Term(RDiv(SqResidual(th, xs, ys, i), s2), 1, s2)))

log_likelihood(th, xs, ys, xe, ye) == SumLL(th, xs, ys, xe, ye, Len(xs))

\* np.sum(ll) over the points 1..i of log_likelihood_sim
RECURSIVE SumLLSim(_, _, _, _, _)
SumLLSim(th, xs, ys, ye, i) ==
    IF i = 0 THEN Finite(<<>>)
    ELSE LET rest == SumLLSim(th, xs, ys, ye, i - 1)
             s2 == RSq(ye[i])
         IN  IF ~isfinite(rest) \/ s2 = RZero THEN NonFinite
             ELSE Finite(Append(rest.terms,
                                Term(RDiv(SqResidual(th, xs, ys, i), s2), 0, ROne)))

log_likelihood_sim(th, xs, ys, ye) == SumLLSim(th, xs, ys, ye, Len(xs))

\* slip: the likelihood is evaluated before the prior is tested
log_posterior_eager(th, xs, ys, xe, ye) ==
    LET lp == log_prior(th)
    IN  IF ~isfinite(lp) THEN [val |-> NegInf, evals |-> 1]
        ELSE [val |-> FAdd(lp, log_likelihood(th, xs, ys, xe, ye)), evals |-> 1]

\* the value returned and the number of likelihood evaluations made
log_posterior(th, xs, ys, xe, ye) ==
    LET lp == log_prior(th)
    IN  IF ~isfinite(lp) THEN [val |-> NegInf, evals |-> 0]
        ELSE [val |-> FAdd(lp, log_likelihood(th, xs, ys, xe, ye)), evals |-> 1]

log_posterior_sim(th, xs, ys, ye) ==
    LET lp == log_prior(th)
    IN  IF ~isfinite(lp) THEN [val |-> NegInf, evals |-> 0]
        ELSE [val |-> FAdd(lp, log_likelihood_sim(th, xs, ys, ye)), evals |-> 1]

-----------------------------------------------------------------------------
(* Inputs of the pure functions *)

\* parameter values inside, on and outside the prior box
ThetaVals == (PriorLo - 1)..(PriorHi + 1)
XVals == {0, 1}
YVals == {[k |-> 1, e |-> 0], [k |-> 5, e |-> 0]}
\* (xerr, yerr) of every point of a data set; <<0, 0>> makes the variance vanish
ErrVals == {<<RZero, RZero>>, <<RZero, ROne>>, <<ROne, ROne>>}

\* 10**model is kept exact for model values in this window of decades
InWindow(e) == PriorLo <= e /\ e <= PriorHi
Representable(th, xs) ==
    \A i \in 1..Len(xs) : InWindow(log_model(xs[i], th[1], th[2]))

Idle == [kind |-> "none"]

\* the data sets: up to MaxPts points, one (xerr, yerr) for all points
DataInit ==
    \E n \in 1..MaxPts :
        /\ x \in [1..n -> XVals]
        /\ y \in [1..n -> YVals]
        /\ \E err \in ErrVals :
             /\ xerr = [i \in 1..n |-> err[1]]
             /\ yerr = [i \in 1..n |-> err[2]]

NoCall ==
    /\ fn = "none"
    /\ ret = Idle
    /\ llEvals = 0
    /\ prevRet = Idle
    /\ flipped = 0

McmcIdle ==
    /\ mFn = "none"
    /\ pc = "idle"
    /\ pool = "none"
    /\ samplerPool = "unset"
    /\ iteration = 0
    /\ evalsCaller = 0
    /\ evalsPool = 0
    /\ keptSteps = {}
    /\ samples = -1
    /\ poolAtRead = "none"

NoFitCall ==
    /\ fitFn = "none"
    /\ soln = <<>>
    /\ pos = <<>>
    /\ entry = 0
    /\ repeated = "no"

FitIdle ==
    /\ r_p = <<>>
    /\ rho = <<>>
    /\ rng = 0
    /\ memo = <<>>
    /\ NoFitCall

InitPure ==
    /\ theta \in ThetaVals \X ThetaVals
    /\ DataInit
    /\ NoCall
    /\ McmcIdle
    /\ FitIdle

\* parameters inside the prior box, where every model value is in the window
InitLik ==
    /\ theta \in ((PriorLo + 1)..(PriorHi - 1)) \X ((PriorLo + 1)..(PriorHi - 1))
    /\ DataInit
    /\ NoCall
    /\ McmcIdle
    /\ FitIdle

Args == <<theta, x, y, xerr, yerr>>

CallLogModel ==
    /\ fn' = "log_model"
    /\ ret' = [i \in 1..Len(x) |-> log_model(x[i], theta[1], theta[2])]
    /\ llEvals' = 0
    /\ prevRet' = Idle
    /\ flipped' = 0
    /\ UNCHANGED <<Args, nonPure>>

CallLogPrior ==
    /\ fn' = "log_prior"
    /\ ret' = log_prior(theta)
    /\ llEvals' = 0
    /\ prevRet' = Idle
    /\ flipped' = 0
    /\ UNCHANGED <<Args, nonPure>>

CallLogLikelihood ==
    /\ Representable(theta, x)
    /\ fn' = "log_likelihood"
    /\ ret' = log_likelihood(theta, x, y, xerr, yerr)
    /\ llEvals' = 1
    /\ prevRet' = Idle
    /\ flipped' = 0
    /\ UNCHANGED <<Args, nonPure>>

CallLogLikelihoodSim ==
    /\ Representable(theta, x)
    /\ fn' = "log_likelihood_sim"
    /\ ret' = log_likelihood_sim(theta, x, y, yerr)
    /\ llEvals' = 1
    /\ prevRet' = Idle
    /\ flipped' = 0
    /\ UNCHANGED <<Args, nonPure>>

CallLogPosterior ==
    LET r == log_posterior(theta, x, y, xerr, yerr)
    IN  /\ fn' = "log_posterior"
        /\ ret' = r.val
        /\ llEvals' = r.evals
        /\ prevRet' = Idle
        /\ flipped' = 0
        /\ UNCHANGED <<Args, nonPure>>

CallLogPosteriorSim ==
    LET r == log_posterior_sim(theta, x, y, yerr)
    IN  /\ fn' = "log_posterior_sim"
        /\ ret' = r.val
        /\ llEvals' = r.evals
        /\ prevRet' = Idle
        /\ flipped' = 0
        /\ UNCHANGED <<Args, nonPure>>

\* The data with the residual 10**y - 10**model of point i negated:
\* 10**y' = 2 * 10**model - 10**y  (the model value and the variance are kept)
Mirrored(th, xs, ys, i) ==
    RSub(RMul(RInt(2), Pow10Int(log_model(xs[i], th[1], th[2]))), Pow10(ys[i]))

\* Re-evaluate the likelihood just computed on the data with one residual negated
FlipResidual(i) ==
    /\ fn \in {"log_likelihood", "log_likelihood_sim"}
    /\ i \in 1..Len(y)
    /\ RLess(RZero, Mirrored(theta, x, y, i))
    /\ y' = [y EXCEPT ![i] = Log10(Mirrored(theta, x, y, i))]
    /\ prevRet' = ret
    /\ flipped' = i
    /\ ret' = IF fn = "log_likelihood"
              THEN log_likelihood(theta, x, y', xerr, yerr)
              ELSE log_likelihood_sim(theta, x, y', yerr)
    /\ UNCHANGED <<theta, x, xerr, yerr, fn, llEvals, nonPure>>

NextPure ==
    \/ CallLogModel
    \/ CallLogPrior
    \/ CallLogLikelihood
    \/ CallLogLikelihoodSim
    \/ CallLogPosterior
    \/ CallLogPosteriorSim

SpecPure == InitPure /\ [][NextPure]_vars

NextLik ==
    \/ CallLogLikelihood
    \/ CallLogLikelihoodSim
    \/ \E i \in 1..MaxPts : FlipResidual(i)

SpecLik == InitLik /\ [][NextLik]_vars

-----------------------------------------------------------------------------
(* Properties of the pure functions *)

\* C1: log_prior returns 0.0 for -2 < q < 2 and -2 < m < 2, and -inf for
\* every theta with q or m at or beyond -2 or 2, the values -2 and 2 included.
C1_PriorBox ==
    fn = "log_prior" =>
        IF theta[1] > -2 /\ theta[1] < 2 /\ theta[2] > -2 /\ theta[2] < 2
        THEN ret = Zero
        ELSE ret = NegInf

\* log_prior was called on a theta on the boundary of the box
C1_Witness ==
    /\ fn = "log_prior"
    /\ theta = <<2, 0>>
    /\ ret = NegInf

\* C2: when the prior rejects theta, log_posterior and log_posterior_sim
\* return -inf whatever the data, and do not evaluate the likelihood.
C2_ShortCircuit ==
    (fn \in {"log_posterior", "log_posterior_sim"} /\ log_prior(theta) = NegInf)
        => (ret = NegInf /\ llEvals = 0)

\* a posterior was called outside the prior on data with vanishing variance,
\* for which the likelihood would divide by zero
C2_Witness ==
    /\ fn = "log_posterior"
    /\ theta = <<3, 0>>
    /\ \A i \in 1..Len(x) : xerr[i] = RZero /\ yerr[i] = RZero
    /\ ret = NegInf
    /\ llEvals = 0

\* C5: log_model returns q + m*x at every x (so q at x = 0, whatever m) and
\* leaves its arguments as they were.
C5_LogModel ==
    /\ [](fn = "log_model" =>
            \A i \in 1..Len(x) :
                /\ ret[i] = theta[1] + theta[2] * x[i]
                /\ (x[i] = 0 => ret[i] = theta[1]))
    /\ [][fn' = "log_model" => UNCHANGED Args]_vars

\* log_model was evaluated at x = 0 with q = 1 and a non-zero slope
C5_Witness ==
    /\ fn = "log_model"
    /\ theta = <<1, 3>>
    /\ x[1] = 0
    /\ ret[1] = 1

\* C6: negating the residual 10**y - 10**model of one point, with theta, x
\* and the uncertainties kept, leaves log_likelihood and log_likelihood_sim
\* unchanged.
C6_ResidualSymmetry ==
    flipped # 0 => ret = prevRet

\* a non-zero residual was negated under a variance with an x-error part
C6_Witness ==
    /\ flipped # 0
    /\ fn = "log_likelihood"
    /\ isfinite(ret)
    /\ ret.terms[flipped].chi # RZero
    /\ xerr[flipped] # RZero
    /\ theta[2] # 0

-----------------------------------------------------------------------------
(* run_mcmc and run_mcmc_sim *)

NWalkers == 64      \* np.random.randn(64, 2)
NSteps == 2000      \* sampler.run_mcmc(pos, 2000, ...)
Discard == 100      \* get_chain(discard=100, ...)
Thin == 15          \* get_chain(..., thin=15, ...)

InitMcmc ==
    /\ theta = <<0, 0>>
    /\ x = <<>>
    /\ y = <<>>
    /\ xerr = <<>>
    /\ yerr = <<>>
    /\ NoCall
    /\ McmcIdle
    /\ FitIdle

\* the caller enters run_mcmc or run_mcmc_sim; pos is drawn
Enter(f) ==
    /\ pc = "idle"
    /\ mFn' = f
    /\ pc' = "entered"
    /\ UNCHANGED <<pureVars, fitVars, pool, samplerPool, iteration, evalsCaller,
                   evalsPool, keptSteps, samples, poolAtRead>>

\* with Pool() as pool:
OpenPool ==
    /\ pc = "entered"
    /\ pool' = "open"
    /\ pc' = "in_with"
    /\ UNCHANGED <<pureVars, fitVars, mFn, samplerPool, iteration, evalsCaller,
                   evalsPool, keptSteps, samples, poolAtRead>>

\* The pool keyword of emcee.EnsembleSampler(nwalkers, ndim, log_prob, args=...):
\* the call names no pool, so the sampler keeps the default, None
SamplerPoolArg == "none"

\* sampler = emcee.EnsembleSampler(...)
CreateSampler ==
    /\ pc = "in_with"
    /\ samplerPool' = SamplerPoolArg
    /\ pc' = "sampling"
    /\ UNCHANGED <<pureVars, fitVars, mFn, pool, iteration, evalsCaller, evalsPool,
                   keptSteps, samples, poolAtRead>>

\* n log-posterior evaluations, mapped over the sampler's pool when it has
\* one and by the builtin map, in the calling process, when it has none
Evaluate(n) ==
    IF samplerPool = "pool"
    THEN /\ evalsPool' = evalsPool + n
         /\ UNCHANGED evalsCaller
    ELSE /\ evalsCaller' = evalsCaller + n
         /\ UNCHANGED evalsPool

\* sampler.run_mcmc: one of the 2000 steps, which proposes a move of every
\* walker; the first step also evaluates the initial ensemble
Step ==
    /\ pc = "sampling"
    /\ iteration < NSteps
    /\ Evaluate(IF iteration = 0 THEN 2 * NWalkers ELSE NWalkers)
    /\ iteration' = iteration + 1
    /\ UNCHANGED <<pureVars, fitVars, mFn, pc, pool, samplerPool, keptSteps, samples,
                   poolAtRead>>

\* sampler.run_mcmc returns after the last step; the elapsed time is taken
FinishRun ==
    /\ pc = "sampling"
    /\ iteration = NSteps
    /\ pc' = "after_run"
    /\ UNCHANGED <<pureVars, fitVars, mFn, pool, samplerPool, iteration, evalsCaller,
                   evalsPool, keptSteps, samples, poolAtRead>>

\* the sampler raises inside the with block (the library's own errors)
SamplerRaises ==
    /\ pc = "sampling"
    /\ pc' = "raising"
    /\ UNCHANGED <<pureVars, fitVars, mFn, pool, samplerPool, iteration, evalsCaller,
                   evalsPool, keptSteps, samples, poolAtRead>>

\* slip: the pool is closed only at the end of the block, not by a with
WithExit_noexc(p, raising) == IF raising THEN p ELSE "closed"

\* Pool.__exit__ at the end of the with block, on both paths
WithExit(p, raising) == "closed"

ExitWith ==
    /\ pc \in {"after_run", "raising"}
    /\ pool' = WithExit(pool, pc = "raising")
    /\ pc' = IF pc = "raising" THEN "raised" ELSE "exited"
    /\ UNCHANGED <<pureVars, fitVars, mFn, samplerPool, iteration, evalsCaller,
                   evalsPool, keptSteps, samples, poolAtRead>>

\* slip: the slice starts at the first step after the burn-in
GetChainSteps_from_discard(iter, discard, thin) ==
    {discard + k * thin : k \in 0..((iter - 1 - discard) \div thin)}

\* The steps sampler.get_chain(discard, thin) keeps of a chain of iter steps:
\* chain[discard + thin - 1 : iter : thin]
GetChainSteps(iter, discard, thin) ==
    LET start == discard + thin - 1
    IN  {start + k * thin : k \in 0..((iter - 1 - start) \div thin)}

\* samples = sampler.get_chain(discard=100, thin=15, flat=True); return samples
ReadChain ==
    /\ pc = "exited"
    /\ keptSteps' = GetChainSteps(iteration, Discard, Thin)
    /\ samples' = Cardinality(keptSteps') * NWalkers
    /\ poolAtRead' = pool
    /\ pc' = "returned"
    /\ UNCHANGED <<pureVars, fitVars, mFn, pool, samplerPool, iteration, evalsCaller,
                   evalsPool>>

NextMcmc ==
    \/ \E f \in {"run_mcmc", "run_mcmc_sim"} : Enter(f)
    \/ OpenPool
    \/ CreateSampler
    \/ Step
    \/ FinishRun
    \/ SamplerRaises
    \/ ExitWith
    \/ ReadChain

SpecMcmc == InitMcmc /\ [][NextMcmc]_vars

-----------------------------------------------------------------------------
(* Properties of the MCMC driver *)

\* C3 as stated: the flat sample array has exactly
\* walkers * (steps - discard) / thin rows.
C3_Original ==
    pc = "returned" => samples * Thin = NWalkers * (NSteps - Discard)

\* C3, amended: the flat sample array has walkers * floor((steps - discard) /
\* thin) = 64 * 126 rows; the steps kept of each walker are the 15th, 30th,
\* ... of the steps left after dropping the first 100.
C3_FlatRows ==
    pc = "returned" =>
        /\ samples = NWalkers * ((NSteps - Discard) \div Thin)
        /\ samples = 8064
        /\ keptSteps = {i \in Discard..(NSteps - 1) : (i - Discard + 1) % Thin = 0}

\* run_mcmc returned its samples after a full chain
C3_Witness ==
    /\ pc = "returned"
    /\ mFn = "run_mcmc"
    /\ iteration = NSteps
    /\ samples > 0

\* C4: the sampler evaluates the log-posterior in the workers of the pool
\* the function created, not in the calling process.
C4_EvaluatedInPool ==
    iteration > 0 => (evalsCaller = 0 /\ evalsPool > 0)

\* C8: the pool is open while the sampler is built and run, is released when
\* the with block ends on the normal and on the exception path, stays
\* released once the function has returned or raised, and the chain is read
\* only after the release.
C8_PoolScoped ==
    /\ pc \in {"in_with", "sampling", "after_run", "raising"} => pool = "open"
    /\ pc \in {"exited", "returned", "raised"} => pool = "closed"
    /\ pc \in {"idle", "entered"} => pool = "none"
    /\ samples # -1 => poolAtRead = "closed"

\* the sampler raised in mid-chain and the function has propagated the error
C8_Witness ==
    /\ pc = "raised"
    /\ iteration > 0
    /\ iteration < NSteps
    /\ pool = "closed"

-----------------------------------------------------------------------------
(* The point-estimate fits *)

RngMod == 3         \* size of the modelled generator's state space
Seed == 42          \* np.random.seed(42)
Ten7 == 10000000    \* 1e7
Ten5 == 100000      \* 1e5

\* slip: the seed call is missing
np_random_seed_missing(cur, seed) == cur

\* np.random.seed(seed): the new generator state depends on the seed alone
np_random_seed(cur, seed) == seed % RngMod

\* one draw advances the generator to its next state
NextRng(s) == (s + 1) % RngMod

\* the generator states left by each of n successive draws from state s
RECURSIVE Draws(_, _)
Draws(s, n) ==
    IF n = 0 THEN <<>>
    ELSE IF n = 1 THEN <<NextRng(s)>>
    ELSE LET a == Draws(s, n \div 2)
         IN  a \o Draws(a[Len(a)], n - (n \div 2))

\* the generator state after n draws from state s
Advance(s, n) == IF n = 0 THEN s ELSE Draws(s, n)[n]

\* the deviate a draw returns, a function of the state the draw leaves
Deviate(s) == s - (RngMod \div 2)

\* np.random.randn(...) flattened: n deviates drawn from state s
randn(s, n) == LET d == Draws(s, n) IN [j \in 1..n |-> Deviate(d[j])]

\* c + 1e-1 * z
Shift(c, z) == RAdd(RInt(c), RMul(Rat(1, 10), RInt(z)))

\* pos = soln.x + 1e-1 * np.random.randn(64, 2); the sums are tabulated over
\* the deviates, which take few values
Ensemble(sol, zs) ==
    LET devs == {Deviate(t) : t \in 0..(RngMod - 1)}
        tq == {<<z, Shift(sol[1], z)>> : z \in devs}
        tm == {<<z, Shift(sol[2], z)>> : z \in devs}
        At(t, z) == (CHOOSE p \in t : p[1] = z)[2]
    IN  [w \in 1..NWalkers |-> <<At(tq, zs[2 * w - 1]), At(tm, zs[2 * w])>>]

\* np.sqrt of a perfect square, by bisection
RECURSIVE SqrtIn(_, _, _)
SqrtIn(n, lo, hi) ==
    IF lo >= hi THEN lo
    ELSE LET mid == (lo + hi + 1) \div 2
         IN  IF mid <= n \div mid THEN SqrtIn(n, mid, hi) ELSE SqrtIn(n, lo, mid - 1)
ISqrt(n) == SqrtIn(n, 0, n)

\* x = np.log10(r_p), for pericenters that are powers of ten
PrepX(rp) == [i \in 1..Len(rp) |-> Log10Nat(rp[i])]

\* y = np.log10(rho_150pc / 1e7)
PrepY(rh) == [i \in 1..Len(rh) |-> Log10(Rat(rh[i], Ten7))]

\* yerr = np.ones(len(y)) * 1e5 / 1e7
PrepYerrSim(ys) == [i \in 1..Len(ys) |-> RDiv(RMul(ROne, RInt(Ten5)), RInt(Ten7))]

\* The error rows r_p[1, :], r_p[2, :] and rho_150pc[1, :], rho_150pc[2, :]
\* handed to run_best_fit: no pericenter error, a 6000-8000 density error
RpErrRows == <<0, 0>>
RhoErrRows == <<6000, 8000>>

\* xerr = np.sqrt(r_p[1, :] ** 2 + r_p[2, :] ** 2)
PrepXerr(rp) ==
    [i \in 1..Len(rp) |->
        RInt(ISqrt(RpErrRows[1] * RpErrRows[1] + RpErrRows[2] * RpErrRows[2]))]

\* yerr = np.sqrt(rho_150pc[1, :] ** 2 + rho_150pc[2, :] ** 2) / 1e7
PrepYerr(rh) ==
    [i \in 1..Len(rh) |->
        RDiv(RInt(ISqrt(RhoErrRows[1] * RhoErrRows[1] + RhoErrRows[2] * RhoErrRows[2])),
             RInt(Ten7))]

\* np.sum of the chi summands of a finite log-likelihood
RECURSIVE SumChi(_, _)
SumChi(terms, i) ==
    IF i = 0 THEN RZero ELSE RAdd(SumChi(terms, i - 1), terms[i].chi)
TotalChi(v) == SumChi(v.terms, Len(v.terms))

\* slip: the minus sign of the objective is missing
nl_sim_unnegated(th, xs, ys, ye) ==
    [sign |-> 1, of |-> log_likelihood_sim(th, xs, ys, ye)]

\* nl = lambda *args: -log_likelihood_sim(*args)
nl_sim(th, xs, ys, ye) == [sign |-> -1, of |-> log_likelihood_sim(th, xs, ys, ye)]

\* nl = lambda *args: -log_likelihood(*args)
nl(th, xs, ys, xe, ye) == [sign |-> -1, of |-> log_likelihood(th, xs, ys, xe, ye)]

\* a < b for two objective values whose summands have the same variances
\* (the value is sign * -0.5 * (sum of chi + a common logarithmic part))
NlLess(a, b) ==
    IF a.sign < 0 THEN RLess(TotalChi(a.of), TotalChi(b.of))
    ELSE RLess(TotalChi(b.of), TotalChi(a.of))

\* The parameters minimize may visit under bounds = ((-2, 2), (-2, 2)): the
\* closed box, on the integer lattice, where every model value is in the window
SimGrid(xs) ==
    {th \in (PriorLo..PriorHi) \X (PriorLo..PriorHi) : Representable(th, xs)}

\* The parameters minimize may visit without bounds, on the part of the
\* lattice where the objective is kept exact
RealGrid(xs) ==
    {th \in ThetaVals \X ThetaVals :
        \A i \in 1..Len(xs) :
            LET e == log_model(xs[i], th[1], th[2])
            IN  PriorLo <= e /\ e <= PriorHi - 1}

\* the data run_best_fit's objective is kept exact for
RealExact(ys) == \A i \in 1..Len(ys) : ~RLess(RInt(10), Pow10(ys[i]))

Dist(a, b) == Abs(a[1] - b[1]) + Abs(a[2] - b[2])

\* scipy.optimize.minimize as a deterministic descent over the objective
\* table T, a set of pairs <<parameters, objective value>>: from cur, move to
\* the lowest neighbouring feasible parameters (the nearest among equals)
\* until none is lower than cur
RECURSIVE Descend(_, _)
Descend(T, cur) ==
    LET N == {p \in T : Abs(p[1][1] - cur[1]) <= 1 /\ Abs(p[1][2] - cur[2]) <= 1}
        B == {p \in N : \A k \in N : ~NlLess(k[2], p[2])}
        C == {p \in B : \A k \in B : Dist(p[1], cur) <= Dist(k[1], cur)}
    IN  IF \E p \in B : p[1] = cur THEN cur
        ELSE Descend(T, (CHOOSE p \in C : TRUE)[1])

\* initial = np.array([1, 0])
Initial == <<1, 0>>

minimize(T, initial) == Descend(T, initial)

\* the objective of the simulation fits, tabulated over the feasible parameters
ObjSim(xs, ys, ye) == {<<th, nl_sim(th, xs, ys, ye)>> : th \in SimGrid(xs)}

\* the objective of run_best_fit, tabulated
ObjReal(xs, ys, xe, ye) == {<<th, nl(th, xs, ys, xe, ye)>> : th \in RealGrid(xs)}

\* soln.x of the simulation fits
FitSim(rp, rh) ==
    minimize(ObjSim(PrepX(rp), PrepY(rh), PrepYerrSim(PrepY(rh))), Initial)

\* soln.x of run_best_fit
FitReal(rp, rh) ==
    minimize(ObjReal(PrepX(rp), PrepY(rh), PrepXerr(rp), PrepYerr(rh)), Initial)

\* bookkeeping: the generator state at entry, and whether this call repeats
\* the call before it from another generator state
Record(f) ==
    /\ entry' = rng
    /\ repeated' = IF fitFn = f
                   THEN (IF entry = rng THEN "same" ELSE "other")
                   ELSE "no"

\* run_mcmc / run_mcmc_sim run to their return inside a fit
McmcRan(f) ==
    /\ mFn' = f
    /\ pc' = "returned"
    /\ pool' = WithExit("open", FALSE)
    /\ samplerPool' = SamplerPoolArg
    /\ iteration' = NSteps
    /\ evalsCaller' = IF SamplerPoolArg = "pool" THEN 0 ELSE (NSteps + 1) * NWalkers
    /\ evalsPool' = IF SamplerPoolArg = "pool" THEN (NSteps + 1) * NWalkers ELSE 0
    /\ keptSteps' = GetChainSteps(NSteps, Discard, Thin)
    /\ samples' = Cardinality(keptSteps') * NWalkers
    /\ poolAtRead' = pool'

RunBestFit ==
    LET s0 == np_random_seed(rng, Seed)
    IN  /\ RealExact(PrepY(rho))
        /\ fitFn' = "run_best_fit"
        /\ soln' = memo.real
        /\ pos' = Ensemble(soln', randn(s0, 2 * NWalkers))
        /\ rng' = Advance(s0, 2 * NWalkers)
        /\ Record("run_best_fit")
        /\ McmcRan("run_mcmc")
        /\ UNCHANGED <<pureVars, r_p, rho, memo>>

RunBestFitForSim ==
    LET s0 == np_random_seed(rng, Seed)
    IN  /\ fitFn' = "run_best_fit_for_sim"
        /\ soln' = memo.sim
        /\ pos' = <<>>
        /\ rng' = s0
        /\ Record("run_best_fit_for_sim")
        /\ UNCHANGED <<pureVars, mcmcVars, r_p, rho, memo>>

RunBestFitForSimWithMcmc ==
    LET s0 == np_random_seed(rng, Seed)
    IN  /\ fitFn' = "run_best_fit_for_sim_with_mcmc"
        /\ soln' = memo.sim
        /\ pos' = Ensemble(soln', randn(s0, 2 * NWalkers))
        /\ rng' = Advance(s0, 2 * NWalkers)
        /\ Record("run_best_fit_for_sim_with_mcmc")
        /\ McmcRan("run_mcmc_sim")
        /\ UNCHANGED <<pureVars, r_p, rho, memo>>

\* other code draws from the global generator between two fits
OtherDraw ==
    /\ rng' = NextRng(rng)
    /\ UNCHANGED <<pureVars, mcmcVars, r_p, rho, fitFn, soln, pos, entry,
                   repeated, memo>>

RpVals == {1, 10}

\* rho_150pc = 1e7 * 10 ** (q0 + m0 * log10(r_p)): data generated exactly from
\* the parameters g = <<q0, m0>>
Synthetic(rp, g) ==
    [i \in 1..Len(rp) |->
        RMul(RInt(Ten7), Pow10Int(log_model(Log10Nat(rp[i]), g[1], g[2])))[1]]

\* the same density c at every pericenter
Flat(rp, c) == [i \in 1..Len(rp) |-> c]

\* the parameters the data are generated from: strictly inside the prior box
GenVals == ((PriorLo + 1)..(PriorHi - 1)) \X ((PriorLo + 1)..(PriorHi - 1))

\* a density of 2e9, above every density the bounded model reaches at r_p = 1
Bright == 200 * Ten7

\* the input arrays, and what minimize returns for them
FitInputs(gens, flats) ==
    /\ theta = <<0, 0>>
    /\ x = <<>>
    /\ y = <<>>
    /\ xerr = <<>>
    /\ yerr = <<>>
    /\ NoCall
    /\ McmcIdle
    /\ \E n \in 1..MaxPts :
         r_p \in [1..n -> RpVals]
    /\ rho \in {Synthetic(r_p, g) : g \in gens} \cup {Flat(r_p, c) : c \in flats}
    /\ memo = [sim |-> FitSim(r_p, rho),
               real |-> IF RealExact(PrepY(rho)) THEN FitReal(r_p, rho) ELSE <<>>]
    /\ NoFitCall

InitFit ==
    /\ FitInputs(GenVals, {Bright})
    /\ rng = np_random_seed(0, Seed)

NextFit ==
    \/ RunBestFit
    \/ RunBestFitForSim
    \/ RunBestFitForSimWithMcmc

SpecFit == InitFit /\ [][NextFit]_vars

InitSeed ==
    /\ FitInputs({<<0, 1>>, <<-1, 1>>}, {})
    /\ rng \in 0..(RngMod - 1)

NextSeed ==
    \/ RunBestFit
    \/ RunBestFitForSim
    \/ RunBestFitForSimWithMcmc
    \/ OtherDraw

SpecSeed == InitSeed /\ [][NextSeed]_vars

SimFits == {"run_best_fit_for_sim", "run_best_fit_for_sim_with_mcmc"}

\* the pericenters take at least two distinct values
TwoAbscissae(rp) == \E i, j \in 1..Len(rp) : rp[i] # rp[j]

ObjOf(f) ==
    IF f \in SimFits
    THEN ObjSim(PrepX(r_p), PrepY(rho), PrepYerrSim(PrepY(rho)))
    ELSE ObjReal(PrepX(r_p), PrepY(rho), PrepXerr(r_p), PrepYerr(rho))

\* g is the one minimiser in the objective table T
UniqueMin(T, g) ==
    \E p \in T :
        /\ p[1] = g
        /\ \A k \in T : k[1] # g => NlLess(p[2], k[2])

C9_NeverRejected ==
    fitFn \in SimFits => log_prior(soln) = Zero

\* C10: a call of a fit function that follows a call of the same function on
\* the same arrays returns the same point estimate and builds the same
\* ensemble, whatever was drawn from the generator in between.
C10_Reproducible ==
    [][(fitFn # "none" /\ fitFn' = fitFn) => (soln' = soln /\ pos' = pos)]_vars

C10_Witness ==
    /\ fitFn = "run_best_fit"
    /\ repeated = "other"
    /\ Len(pos) = NWalkers
    /\ \E v, w \in 1..NWalkers : pos[v] # pos[w]

====
